---------------------------- MODULE Spec2Model ----------------------------
(***************************************************************************)
(* A model of python/dry/dry.py, the quality-control functions of the PSP  *)
(* pipeline: provenance code handling, sample and probe filtering, sample  *)
(* balance optimisation, and sample outlier removal.                       *)
(*                                                                         *)
(* Every function of dry.py is a pure function of its arguments, so a run  *)
(* of the model is one call: Init draws the function (entry) and its       *)
(* arguments (args), and the function's action computes the result (ret).  *)
(* The provenance functions work on numpy arrays, which are mutable        *)
(* objects; they are modelled over a heap and may be called repeatedly.    *)
(***************************************************************************)
EXTENDS Integers, Sequences, FiniteSets, TLC

VARIABLES
    entry,    \* the function of dry.py the run calls
    pc,       \* "call": the call is pending; "return" / "raise": its outcome
    args,     \* the arguments of the call, a record keyed by parameter name
    ret,      \* what the call returned
    stdout,   \* what the call printed
    heap,     \* the numpy string arrays allocated so far, by object id
    prov,     \* the caller's provenance code: the id of its array (0: none)
    history,  \* the arrays the caller passed to update_prov_code, as passed
    trace,    \* the functions of dry.py the run has entered, in order
    locals    \* the local variables of the function as it returned

vars == <<entry, pc, args, ret, stdout, heap, prov, history, trace, locals>>

\* Before the call: nothing returned, printed or allocated yet.
Fresh ==
    /\ ret = <<>>
    /\ stdout = <<>>
    /\ heap = <<>>
    /\ prov = 0
    /\ history = <<>>
    /\ trace = <<>>
    /\ locals = <<>>

-----------------------------------------------------------------------------
(* Bounds of the model.                                                    *)

\* Bits in the significand of a floating-point number.  float64 has 53; with
\* fewer, the rounding float64 shows on 0.1 + 0.1 + 0.1 shows on 7 + 7 + 7.
Precision == 4
\* Bits after the binary point of the smallest magnitudes (the exponent floor).
FracBits == 4
\* The largest number of cells (probes times samples) of an input matrix.
MaxCells == 6
\* The largest number of samples of a matrix given to optimize_sample_balance.
MaxBalanceSamples == 3
\* The largest number of distances given to remove_sample_outliers.
MaxDistances == 5
\* The largest number of numpy arrays a provenance session allocates.
MaxArrays == 4

-----------------------------------------------------------------------------
(* float64 arithmetic.  A float is <<k>>, standing for the number          *)
(* k / Scale, or NaN.  k is representable when its magnitude has at most   *)
(* Precision significant bits; every operation rounds its exact result to  *)
(* the nearest representable number, ties to the even significand, as      *)
(* IEEE 754 does.  Magnitudes below 2^Precision / Scale lie on the fixed   *)
(* grid of 1 / Scale, as subnormal numbers do.  Infinities do not arise:   *)
(* the only division by zero in the model is 0 / 0.                        *)

Scale == 2 ^ FracBits

NaN == <<>>

Fl(k) == <<k>>

IsNaN(x) == x = NaN

Abs(i) == IF i < 0 THEN -i ELSE i

\* The exponent of the unit in the last place of the quotient a / den.
UlpExponent(a, den) ==
    CHOOSE j \in 0..24 :
        /\ a \div (den * 2 ^ j) < 2 ^ Precision
        /\ j > 0 => a \div (den * 2 ^ (j - 1)) >= 2 ^ Precision

\* a / den (a >= 0, den > 0) rounded to the nearest representable magnitude.
RoundMagnitude(a, den) ==
    LET ulp == 2 ^ UlpExponent(a, den)
        lo  == (a \div (den * ulp)) * ulp
        hi  == lo + ulp
    IN  IF 2 * a < (lo + hi) * den THEN lo
        ELSE IF 2 * a > (lo + hi) * den THEN hi
        ELSE IF (lo \div ulp) % 2 = 0 THEN lo ELSE hi

\* num / den (den > 0) rounded to the nearest representable number.
Round(num, den) ==
    IF num >= 0 THEN RoundMagnitude(num, den) ELSE -RoundMagnitude(-num, den)

\* The float nearest to the rational n / d.
Float(n, d) == Fl(Round(n * Scale, d))

FAdd(x, y) == IF IsNaN(x) \/ IsNaN(y) THEN NaN ELSE Fl(Round(x[1] + y[1], 1))

FSub(x, y) == IF IsNaN(x) \/ IsNaN(y) THEN NaN ELSE Fl(Round(x[1] - y[1], 1))

FMul(x, y) == IF IsNaN(x) \/ IsNaN(y) THEN NaN ELSE Fl(Round(x[1] * y[1], Scale))

FDiv(x, y) ==
    IF IsNaN(x) \/ IsNaN(y) \/ y[1] = 0 THEN NaN
    ELSE IF y[1] > 0 THEN Fl(Round(x[1] * Scale, y[1]))
    ELSE Fl(Round(-(x[1] * Scale), -y[1]))

\* The integer part of the square root of t >= 0.
ISqrt(t) == CHOOSE s \in 0..t : s * s <= t /\ t < (s + 1) * (s + 1)

\* The correctly rounded square root.
FSqrt(x) ==
    IF IsNaN(x) \/ x[1] < 0 THEN NaN
    ELSE LET t   == x[1] * Scale
             ulp == 2 ^ UlpExponent(ISqrt(t), 1)
             lo  == (ISqrt(t) \div ulp) * ulp
             hi  == lo + ulp
         IN  IF 4 * t < (lo + hi) * (lo + hi) THEN Fl(lo)
             ELSE IF 4 * t > (lo + hi) * (lo + hi) THEN Fl(hi)
             ELSE IF (lo \div ulp) % 2 = 0 THEN Fl(lo) ELSE Fl(hi)

\* x < y; every comparison with NaN is false.
FLess(x, y) == ~IsNaN(x) /\ ~IsNaN(y) /\ x[1] < y[1]

\* x <= y; every comparison with NaN is false.
FLessEq(x, y) == ~IsNaN(x) /\ ~IsNaN(y) /\ x[1] <= y[1]

\* Python's sum() and numpy's add.reduce over fewer than eight numbers: the
\* running total starts at 0 and takes the items from left to right.
RECURSIVE FSumFrom(_, _, _)
FSumFrom(total, s, i) ==
    IF i > Len(s) THEN total ELSE FSumFrom(FAdd(total, s[i]), s, i + 1)

FSum(s) == FSumFrom(Fl(0), s, 1)

-----------------------------------------------------------------------------
(* numpy arrays and pandas data frames.  A matrix holds its rows as a      *)
(* sequence of sequences of floats; nrows and ncols keep the shape of an   *)
(* empty one.  An ndarray has nothing but positions; a DataFrame carries   *)
(* the row labels (index) and the column labels (columns) too.             *)

\* The subsequence of s at the positions where mask is TRUE.
RECURSIVE Take(_, _)
Take(s, mask) ==
    IF s = <<>> THEN <<>>
    ELSE IF Head(mask) THEN <<Head(s)>> \o Take(Tail(s), Tail(mask))
    ELSE Take(Tail(s), Tail(mask))

Column(data, j) == [i \in 1..Len(data) |-> data[i][j]]

NdArray(data, ncols) == [nrows |-> Len(data), ncols |-> ncols, data |-> data]

\* a[:, mask] for a two-dimensional ndarray and a boolean mask over its columns.
NdTakeColumns(a, mask) ==
    [nrows |-> a.nrows,
     ncols |-> Len(Take(mask, mask)),
     data  |-> [i \in 1..a.nrows |-> Take(a.data[i], mask)]]

\* pd.DataFrame(data): the rows and the columns are labelled 0, 1, 2, ...
DataFrame(data, ncols) ==
    [index   |-> [i \in 1..Len(data) |-> i - 1],
     columns |-> [j \in 1..ncols |-> j - 1],
     data    |-> data]

\* df.shape
Shape(df) == <<Len(df.index), Len(df.columns)>>

\* df.values: the ndarray of the cells, without the labels.
Values(df) == NdArray(df.data, Len(df.columns))

\* df.loc[:, mask] for a boolean mask over the columns.
LocColumns(df, mask) ==
    [index   |-> df.index,
     columns |-> Take(df.columns, mask),
     data    |-> [i \in 1..Len(df.data) |-> Take(df.data[i], mask)]]

\* df.loc[mask, :] for a boolean mask over the rows.
LocRows(df, mask) ==
    [index   |-> Take(df.index, mask),
     columns |-> df.columns,
     data    |-> Take(df.data, mask)]

\* df.loc[:, label]: the column labelled label, as a Series over the index.
LocColumn(df, label) ==
    Column(df.data, CHOOSE j \in 1..Len(df.columns) : df.columns[j] = label)

\* The number of NaN in a sequence of floats.
CountNaN(s) == Cardinality({i \in 1..Len(s) : IsNaN(s[i])})

\* df.isnull().sum(): the number of NaN of each column.
IsNullSumColumns(df) ==
    [j \in 1..Len(df.columns) |-> CountNaN(Column(df.data, j))]

\* df.isnull().sum(axis=1): the number of NaN of each row.
IsNullSumRows(df) == [i \in 1..Len(df.index) |-> CountNaN(df.data[i])]

\* series.divide(n) for a Series of integers and an integer: true division.
Divide(series, n) ==
    [k \in 1..Len(series) |-> FDiv(Fl(series[k] * Scale), Fl(n * Scale))]

\* The values of s that are not NaN, in order.
NotNaN(s) == Take(s, [i \in 1..Len(s) |-> ~IsNaN(s[i])])

\* The standard deviation pandas computes for one row (skipna, ddof = 1) in
\* two passes: NaN counts as 0 in the sum that gives the mean and has no
\* squared deviation; fewer than two values give NaN.
PandasStd(s) ==
    LET count  == Len(s) - CountNaN(s)
        filled == [i \in 1..Len(s) |-> IF IsNaN(s[i]) THEN Fl(0) ELSE s[i]]
        avg    == FDiv(FSum(filled), Fl(count * Scale))
        sqr    == [i \in 1..Len(s) |->
                      IF IsNaN(s[i]) THEN Fl(0)
                      ELSE FMul(FSub(avg, s[i]), FSub(avg, s[i]))]
    IN  IF count <= 1 THEN NaN
        ELSE FSqrt(FDiv(FSum(sqr), Fl((count - 1) * Scale)))

\* df.std(axis=1)
StdRows(df) == [i \in 1..Len(df.index) |-> PandasStd(df.data[i])]

\* The k-th smallest of the numbers of s.
KthSmallest(s, k) ==
    LET v == CHOOSE v \in {s[i][1] : i \in 1..Len(s)} :
                 /\ Cardinality({i \in 1..Len(s) : s[i][1] < v}) < k
                 /\ k <= Cardinality({i \in 1..Len(s) : s[i][1] <= v})
    IN  Fl(v)

\* The median pandas computes for one row (skipna): the middle value, or the
\* mean of the two middle values; NaN for a row of NaN.
PandasMedian(s) ==
    LET v == NotNaN(s)
        n == Len(v)
    IN  IF n = 0 THEN NaN
        ELSE IF n % 2 = 1 THEN KthSmallest(v, (n + 1) \div 2)
        ELSE FDiv(FAdd(KthSmallest(v, n \div 2), KthSmallest(v, n \div 2 + 1)),
                  Fl(2 * Scale))

\* df.median(axis=1)
MedianRows(df) == [i \in 1..Len(df.index) |-> PandasMedian(df.data[i])]

\* df.add(offsets) for a one-dimensional array: offsets[j] is added to every
\* cell of column j.
DfAdd(df, offsets) ==
    [index   |-> df.index,
     columns |-> df.columns,
     data    |-> [i \in 1..Len(df.data) |->
                     [j \in 1..Len(df.columns) |-> FAdd(df.data[i][j], offsets[j])]]]

-----------------------------------------------------------------------------
(* The matrices the model draws.                                           *)

\* The cells: a missing value, 1 and 2.
Cells == {NaN, Float(1, 1), Float(2, 1)}

\* The matrices of nrows rows and ncols columns.
Matrices(nrows, ncols) == [1..nrows -> [1..ncols -> Cells]]

\* The shapes of at most MaxCells cells; an empty matrix has one empty side.
Shapes ==
    {sh \in (0..MaxCells) \X (0..MaxCells) :
        /\ sh[1] * sh[2] <= MaxCells
        /\ sh[1] = 0 => sh[2] <= 2
        /\ sh[2] = 0 => sh[1] <= 2}

\* The missing-value cutoffs the model draws: 1/2, 1 and 2.
PctCutoffs == {Float(1, 2), Float(1, 1), Float(2, 1)}

\* The standard-deviation cutoffs the model draws: 1/2 and 1.
SdCutoffs == {Float(1, 2), Float(1, 1)}

-----------------------------------------------------------------------------
(* filter_samples and filter_probes                                        *)

\* pct_nans_per_sample < sample_pct_cutoff
SampleMask(pct_nans_per_sample, sample_pct_cutoff) ==
    [j \in 1..Len(pct_nans_per_sample) |->
        FLess(pct_nans_per_sample[j], sample_pct_cutoff)]

FilterSamplesResult(df, sample_pct_cutoff) ==
    LET num_nans            == IsNullSumColumns(df)
        num_probes          == Shape(df)[1]
        pct_nans_per_sample == Divide(num_nans, num_probes)
        out_df == LocColumns(df, SampleMask(pct_nans_per_sample, sample_pct_cutoff))
    IN  Values(out_df)

filter_samples ==
    /\ entry = "filter_samples"
    /\ pc = "call"
    /\ ret' = FilterSamplesResult(args.df, args.sample_pct_cutoff)
    /\ pc' = "return"
    /\ trace' = Append(trace, "filter_samples")
    /\ UNCHANGED <<entry, args, stdout, heap, prov, history, locals>>

\* The mask with "or" for "and": a probe passing either test is kept.
ProbeMaskEither(pct_nans_per_probe, probe_pct_cutoff, probe_sds, probe_sd_cutoff) ==
    [i \in 1..Len(probe_sds) |->
        \/ FLess(pct_nans_per_probe[i], probe_pct_cutoff)
        \/ FLess(probe_sds[i], probe_sd_cutoff)]

\* (pct_nans_per_probe < probe_pct_cutoff) & (probe_sds < probe_sd_cutoff)
ProbeMask(pct_nans_per_probe, probe_pct_cutoff, probe_sds, probe_sd_cutoff) ==
    [i \in 1..Len(probe_sds) |->
        /\ FLess(pct_nans_per_probe[i], probe_pct_cutoff)
        /\ FLess(probe_sds[i], probe_sd_cutoff)]

FilterProbesResult(df, probe_pct_cutoff, probe_sd_cutoff) ==
    LET num_nans           == IsNullSumRows(df)
        num_samples        == Shape(df)[2]
        pct_nans_per_probe == Divide(num_nans, num_samples)
        probe_sds          == StdRows(df)
        probes_to_keep     == ProbeMask(pct_nans_per_probe, probe_pct_cutoff,
                                        probe_sds, probe_sd_cutoff)
    IN  LocRows(df, probes_to_keep)

filter_probes ==
    /\ entry = "filter_probes"
    /\ pc = "call"
    /\ ret' = FilterProbesResult(args.df, args.probe_pct_cutoff, args.probe_sd_cutoff)
    /\ pc' = "return"
    /\ trace' = Append(trace, "filter_probes")
    /\ UNCHANGED <<entry, args, stdout, heap, prov, history, locals>>

InitFilterSamples ==
    /\ entry = "filter_samples"
    /\ pc = "call"
    /\ \E sh \in Shapes, c \in PctCutoffs :
           \E m \in Matrices(sh[1], sh[2]) :
               args = [df |-> DataFrame(m, sh[2]), sample_pct_cutoff |-> c]
    /\ Fresh

InitFilterProbes ==
    /\ entry = "filter_probes"
    /\ pc = "call"
    /\ \E sh \in Shapes, c \in PctCutoffs, sd \in SdCutoffs :
           \E m \in Matrices(sh[1], sh[2]) :
               args = [df |-> DataFrame(m, sh[2]), probe_pct_cutoff |-> c,
                       probe_sd_cutoff |-> sd]
    /\ Fresh

InitFilter == InitFilterSamples \/ InitFilterProbes

NextFilter == filter_samples \/ filter_probes

SpecFilter == InitFilter /\ [][NextFilter]_vars

-----------------------------------------------------------------------------
(* function_to_optimize and optimize_sample_balance                        *)

\* sum(np.square((offset + values) - medians)): the terms are added from left
\* to right, and a term that is NaN makes the sum NaN.
FunctionToOptimize(offset, values, medians) ==
    FSum([i \in 1..Len(values) |->
             LET d == FSub(FAdd(offset, values[i]), medians[i])
             IN  FMul(d, d)])

\* offset_bounds=(-7, 7)
DefaultOffsetBounds == <<Float(-7, 1), Float(7, 1)>>

\* The offsets the minimizer may return: the multiples of 1/2 strictly
\* between the bounds.
OffsetStep == Scale \div 2

OffsetGrid(bounds) ==
    {Fl(k) : k \in {k \in (bounds[1][1] + 1)..(bounds[2][1] - 1) : k % OffsetStep = 0}}

\* xatol, the distance from the minimum within which the minimizer stops:
\* one step of the grid.
XAtol == OffsetStep

\* The golden-section ratio (3 - sqrt(5)) / 2, which places the first trial.
GoldenMean == Float(382, 1000)

\* scipy.optimize.minimize_scalar(function_to_optimize, args=(values, medians),
\* method="bounded", bounds=bounds): the results it may give, each with the
\* fields x, fun and success.  The search keeps the best point found and
\* narrows the interval around it by golden-section and parabolic steps until
\* the interval is shorter than xatol; on a convex objective it ends within
\* xatol of the minimum, well inside its 500 iterations.  An objective that is
\* NaN never compares as an improvement, so the search ends at its first
\* trial point; whether that counts as success depends on the version.
MinimizeScalarBounded(values, medians, bounds) ==
    LET objective(x) == FunctionToOptimize(x, values, medians)
        first == FAdd(bounds[1], FMul(GoldenMean, FSub(bounds[2], bounds[1])))
        grid  == OffsetGrid(bounds)
        best  == {x \in grid : \A y \in grid : ~FLess(objective(y), objective(x))}
        near  == {x \in grid : \E b \in best : Abs(x[1] - b[1]) <= XAtol}
    IN  IF IsNaN(objective(first))
        THEN {[x |-> first, fun |-> NaN, success |-> ok] : ok \in BOOLEAN}
        ELSE {[x |-> x, fun |-> objective(x), success |-> TRUE] : x \in near}

\* The results of the loop over the samples 0 .. num_samples - 1: one result
\* of the minimizer for each.
RECURSIVE OptimizationResults(_, _, _, _)
OptimizationResults(df, probe_medians, offset_bounds, num_samples) ==
    IF num_samples = 0 THEN {<<>>}
    ELSE {Append(earlier, optimization_result) :
            earlier \in OptimizationResults(df, probe_medians, offset_bounds,
                                            num_samples - 1),
            optimization_result \in
                MinimizeScalarBounded(LocColumn(df, num_samples - 1),
                                      probe_medians, offset_bounds)}

\* df.loc[:, success_bools]: the samples that did converge.
ConvergedSamples(df, success_bools) == LocColumns(df, success_bools)

\* df.loc[:, ~success_bools]
FailedSamples(df, success_bools) ==
    LocColumns(df, [j \in 1..Len(success_bools) |-> ~success_bools[j]])

\* The offsets are computed and not applied.
ApplyNoOffsets(df, optimized_offsets) == df

\* df.add(optimized_offsets)
ApplyOffsets(df, optimized_offsets) == DfAdd(df, optimized_offsets)

optimize_sample_balance ==
    /\ entry = "optimize_sample_balance"
    /\ pc = "call"
    /\ LET df            == args.df
           probe_medians == MedianRows(df)
           num_samples   == Shape(df)[2]
       IN  \E results \in OptimizationResults(df, probe_medians,
                                              args.offset_bounds, num_samples) :
             LET optimized_offsets   == [j \in 1..num_samples |-> results[j].x]
                 optimized_distances == [j \in 1..num_samples |-> results[j].fun]
                 success_bools       == [j \in 1..num_samples |-> results[j].success]
                 unoptimized_distances ==
                     [j \in 1..num_samples |->
                         FunctionToOptimize(Fl(0), LocColumn(df, j - 1), probe_medians)]
             IN  /\ stdout' =
                        IF \A j \in 1..num_samples : success_bools[j] THEN stdout
                        ELSE Append(stdout,
                                 <<"The following samples failed to converge during optimization: ",
                                   FailedSamples(df, success_bools)>>)
                 /\ ret' = <<ApplyOffsets(df, optimized_offsets), optimized_distances>>
                 /\ locals' = [probe_medians         |-> probe_medians,
                               optimized_offsets     |-> optimized_offsets,
                               optimized_distances   |-> optimized_distances,
                               unoptimized_distances |-> unoptimized_distances,
                               success_bools         |-> success_bools]
    /\ pc' = "return"
    /\ trace' = Append(trace, "optimize_sample_balance")
    /\ UNCHANGED <<entry, args, heap, prov, history>>

\* The shapes of the matrices given to optimize_sample_balance: at least one
\* probe, so that the objective has a single minimum.
BalanceShapes ==
    {sh \in Shapes : sh[1] >= 1 /\ sh[2] <= MaxBalanceSamples}

InitBalance ==
    /\ entry = "optimize_sample_balance"
    /\ pc = "call"
    /\ \E sh \in BalanceShapes :
           \E m \in Matrices(sh[1], sh[2]) :
               args = [df |-> DataFrame(m, sh[2]), offset_bounds |-> DefaultOffsetBounds]
    /\ Fresh

NextBalance == optimize_sample_balance

SpecBalance == InitBalance /\ [][NextBalance]_vars

-----------------------------------------------------------------------------
(* remove_sample_outliers                                                  *)

\* np.mean: the sum divided by the number of items (0 / 0 is NaN).
NpMean(a) == FDiv(FSum(a), Fl(Len(a) * Scale))

\* np.std with ddof = 1: the sum of squares is divided by one less.
NpStdSample(a) ==
    LET arrmean == NpMean(a)
        x       == [i \in 1..Len(a) |-> FSub(a[i], arrmean)]
        xx      == [i \in 1..Len(a) |-> FMul(x[i], x[i])]
    IN  FSqrt(FDiv(FSum(xx), Fl((Len(a) - 1) * Scale)))

\* np.std (ddof = 0): the square root of the mean squared deviation.
NpStd(a) ==
    LET arrmean == NpMean(a)
        x       == [i \in 1..Len(a) |-> FSub(a[i], arrmean)]
        xx      == [i \in 1..Len(a) |-> FMul(x[i], x[i])]
    IN  FSqrt(FDiv(FSum(xx), Fl(Len(a) * Scale)))

\* The mask with <= for <: a sample whose distance equals the cutoff is kept.
OutlierMaskInclusive(dist, cutoff) ==
    [j \in 1..Len(dist) |-> FLessEq(dist[j], cutoff)]

\* distances < cutoff
OutlierMask(dist, cutoff) ==
    [j \in 1..Len(dist) |-> FLess(dist[j], cutoff)]

RemoveSampleOutliersResult(df, dist, sd_sample_outlier_cutoff) ==
    LET cutoff == FAdd(NpMean(dist), FMul(NpStd(dist), sd_sample_outlier_cutoff))
    IN  NdTakeColumns(df, OutlierMask(dist, cutoff))

remove_sample_outliers ==
    /\ entry = "remove_sample_outliers"
    /\ pc = "call"
    /\ ret' = RemoveSampleOutliersResult(args.df, args.distances,
                                         args.sd_sample_outlier_cutoff)
    /\ pc' = "return"
    /\ trace' = Append(trace, "remove_sample_outliers")
    /\ UNCHANGED <<entry, args, stdout, heap, prov, history, locals>>

\* The distances the model draws: 1, 7 and 10.
DistanceValues == {Float(1, 1), Float(7, 1), Float(10, 1)}

\* The multipliers the model draws: -1, 0, 1 and 3 (main's value).
Multipliers == {Float(-1, 1), Float(0, 1), Float(1, 1), Float(3, 1)}

Vectors(S, n) == UNION {[1..k -> S] : k \in 0..n}

\* The matrix whose one row numbers its columns: column j holds j - 1.
TaggedColumns(n) == NdArray(<<[j \in 1..n |-> Fl((j - 1) * Scale)]>>, n)

InitOutliers ==
    /\ entry = "remove_sample_outliers"
    /\ pc = "call"
    /\ \E d \in Vectors(DistanceValues, MaxDistances), m \in Multipliers :
           args = [df |-> TaggedColumns(Len(d)), distances |-> d,
                   sd_sample_outlier_cutoff |-> m]
    /\ Fresh

NextOutliers == remove_sample_outliers

SpecOutliers == InitOutliers /\ [][NextOutliers]_vars

-----------------------------------------------------------------------------
(* determine_assay_type and update_prov_code                               *)

\* The strings the model draws as the first entry of a provenance code.
ProvCodes == {"PR1", "GR1", "DR1", "XX9", "pr1", "L2X"}

\* The strings the model draws as later entries.
ProvCodeEntries == {"L2X", "SF8", "PF8.5"}

\* allowed_assay_types without its last entry.
AllowedAssayTypesShort == <<"PR1", "GR1">>

AllowedAssayTypes == <<"PR1", "GR1", "DR1">>

\* x in a, for a numpy array a: (a == x).any()
NpContains(a, x) == \E i \in 1..Len(a) : a[i] = x

\* The Exception determine_assay_type raises.
AssayTypeError(assay_type) ==
    [exception |-> "Exception",
     message   |-> <<"The first entry of the provenance code should be the " \o
                     "assay type. Assay type not recognized. assay_type: ",
                     assay_type>>]

determine_assay_type ==
    /\ entry = "determine_assay_type"
    /\ pc = "call"
    /\ trace' = Append(trace, "determine_assay_type")
    /\ LET assay_type == <<args.prov_code>>
       IN  IF ~NpContains(AllowedAssayTypes, assay_type[1])
           THEN /\ pc' = "raise"
                /\ ret' = AssayTypeError(assay_type[1])
                /\ UNCHANGED <<heap, prov>>
           ELSE /\ pc' = "return"
                /\ heap' = Append(heap, assay_type)
                /\ ret' = Len(heap) + 1
                /\ prov' = Len(heap) + 1
    /\ UNCHANGED <<entry, args, stdout, history, locals>>

\* np.append with its arguments swapped: the new entry comes first.
NpAppendSwapped(arr, values) == <<values>> \o arr

\* np.append(arr, values) for a string: a new array, arr followed by values.
NpAppend(arr, values) == arr \o <<values>>

\* The caller appends an entry to the provenance code it holds and keeps the
\* result: prov_code = update_prov_code(new_entry, prov_code).
update_prov_code ==
    /\ entry \in {"determine_assay_type", "update_prov_code"}
    /\ pc = "return"
    /\ Len(heap) < MaxArrays
    /\ \E new_entry \in ProvCodeEntries :
           /\ args' = [new_entry |-> new_entry, existing_prov_code |-> prov]
           /\ heap' = Append(heap, NpAppend(heap[prov], new_entry))
    /\ entry' = "update_prov_code"
    /\ history' = Append(history, [id |-> prov, data |-> heap[prov]])
    /\ ret' = Len(heap) + 1
    /\ prov' = Len(heap) + 1
    /\ trace' = Append(trace, "update_prov_code")
    /\ UNCHANGED <<pc, stdout, locals>>

InitProvenance ==
    /\ entry = "determine_assay_type"
    /\ pc = "call"
    /\ \E code \in ProvCodes : args = [prov_code |-> code]
    /\ Fresh

NextProvenance == determine_assay_type \/ update_prov_code

SpecProvenance == InitProvenance /\ [][NextProvenance]_vars

-----------------------------------------------------------------------------
(* main                                                                    *)

\* The body of main is the statement pass: it enters no other function.
main ==
    /\ entry = "main"
    /\ pc = "call"
    /\ pc' = "return"
    /\ ret' = "None"
    /\ trace' = Append(trace, "main")
    /\ UNCHANGED <<entry, args, stdout, heap, prov, history, locals>>

InitMain ==
    /\ entry = "main"
    /\ pc = "call"
    /\ args = <<>>
    /\ Fresh

-----------------------------------------------------------------------------
(* The module: a run calls one of its functions.                           *)

Init == InitProvenance \/ InitFilter \/ InitBalance \/ InitOutliers \/ InitMain

Next ==
    \/ determine_assay_type
    \/ update_prov_code
    \/ filter_samples
    \/ filter_probes
    \/ optimize_sample_balance
    \/ remove_sample_outliers
    \/ main

Spec == Init /\ [][Next]_vars

-----------------------------------------------------------------------------
(* The claims.                                                             *)

Returned(function) == entry = function /\ pc = "return"

SeqRange(s) == {s[i] : i \in 1..Len(s)}

\* The share of missing values among the cells of a row or a column.
MissingFraction(cells) == FDiv(Fl(CountNaN(cells) * Scale), Fl(Len(cells) * Scale))

\* The sample standard deviation of the values that are not missing; it is
\* undefined (NaN) for fewer than two values.
SampleStdDev(cells) ==
    LET v    == NotNaN(cells)
        n    == Len(v)
        mean == FDiv(FSum(v), Fl(n * Scale))
        ss   == FSum([i \in 1..n |-> FMul(FSub(v[i], mean), FSub(v[i], mean))])
    IN  IF n < 2 THEN NaN ELSE FSqrt(FDiv(ss, Fl((n - 1) * Scale)))

\* The rows of args.df that pass both cutoffs of filter_probes.
ProbePasses ==
    [i \in 1..Len(args.df.index) |->
        /\ FLess(MissingFraction(args.df.data[i]), args.probe_pct_cutoff)
        /\ FLess(SampleStdDev(args.df.data[i]), args.probe_sd_cutoff)]

\* C1: filter_probes keeps a row if and only if both its missing fraction is
\* strictly less than probe_pct_cutoff and its standard deviation over the
\* values that are not missing is strictly less than probe_sd_cutoff; a row
\* without any value is always dropped; the result has the columns of the
\* input, and its rows are the kept rows of the input, in the original order
\* and under their labels.
C1_FilterProbesKeepsRowsPassingBothCutoffs ==
    Returned("filter_probes") =>
        /\ ret.columns = args.df.columns
        /\ ret.index = Take(args.df.index, ProbePasses)
        /\ ret.data = Take(args.df.data, ProbePasses)
        /\ \A i \in 1..Len(args.df.index) :
               NotNaN(args.df.data[i]) = <<>> => args.df.index[i] \notin SeqRange(ret.index)

\* A call of filter_probes that keeps one row, drops another for its standard
\* deviation alone, and drops a row without any value although the missing
\* fraction cutoff (2) lets it pass.
C1_Witness ==
    /\ Returned("filter_probes")
    /\ \E i \in 1..Len(args.df.index) : ProbePasses[i]
    /\ \E i \in 1..Len(args.df.index) :
           /\ FLess(MissingFraction(args.df.data[i]), args.probe_pct_cutoff)
           /\ ~IsNaN(SampleStdDev(args.df.data[i]))
           /\ ~FLess(SampleStdDev(args.df.data[i]), args.probe_sd_cutoff)
    /\ \E i \in 1..Len(args.df.index) :
           /\ NotNaN(args.df.data[i]) = <<>>
           /\ FLess(MissingFraction(args.df.data[i]), args.probe_pct_cutoff)

\* The columns of args.df whose missing fraction is below the cutoff.
SamplePasses ==
    [j \in 1..Len(args.df.columns) |->
        FLess(MissingFraction(Column(args.df.data, j)), args.sample_pct_cutoff)]

\* The identifiers of the columns of a matrix: the column labels of a
\* DataFrame; an ndarray has only the positions 0, 1, 2, ...
ColumnIds(m) ==
    IF "columns" \in DOMAIN m THEN m.columns ELSE [j \in 1..m.ncols |-> j - 1]

\* C2: filter_samples keeps a column if and only if its missing fraction is
\* strictly less than the cutoff; the result never has more rows or columns
\* than the input, has exactly the rows of the input, and its columns are the
\* kept columns of the input in the original order with their sample
\* identifiers preserved.
C2_FilterSamplesKeepsColumnsAndIdentifiers ==
    Returned("filter_samples") =>
        /\ Len(ret.data) = Len(args.df.index)
        /\ Len(ColumnIds(ret)) <= Len(args.df.columns)
        /\ ret.data = [i \in 1..Len(args.df.index) |-> Take(args.df.data[i], SamplePasses)]
        /\ ColumnIds(ret) = Take(args.df.columns, SamplePasses)

\* The cutoff of remove_sample_outliers: mean + multiplier * stddev, over all
\* the distances.
OutlierCutoff ==
    LET d      == args.distances
        n      == Fl(Len(d) * Scale)
        mean   == FDiv(FSum(d), n)
        sq     == [j \in 1..Len(d) |-> FMul(FSub(d[j], mean), FSub(d[j], mean))]
        stddev == FSqrt(FDiv(FSum(sq), n))
    IN  FAdd(mean, FMul(args.sd_sample_outlier_cutoff, stddev))

\* The samples whose distance is strictly less than the cutoff.
BelowCutoff == [j \in 1..Len(args.distances) |-> FLess(args.distances[j], OutlierCutoff)]

\* The distances 1, 1, 1, 1, 10 with the multiplier 1.
OutlierExample ==
    /\ args.distances = <<Float(1, 1), Float(1, 1), Float(1, 1), Float(1, 1), Float(10, 1)>>
    /\ args.sd_sample_outlier_cutoff = Float(1, 1)

SpecObjective(offset, values, medians) ==
    FSum(NotNaN([i \in 1..Len(values) |->
                    FMul(FSub(FAdd(offset, values[i]), medians[i]),
                         FSub(FAdd(offset, values[i]), medians[i]))]))

\* The sample has a probe whose value and median are both defined.
HasDefinedProbe(values, medians) ==
    \E i \in 1..Len(values) : ~IsNaN(values[i]) /\ ~IsNaN(medians[i])

\* C4: the objective of a sample is the sum over the probes whose value is
\* defined, so a sample with some missing values and at least one defined
\* value gets a defined objective value and distance.
C4_ObjectiveSkipsMissingValues ==
    Returned("optimize_sample_balance") =>
        \A j \in 1..Len(args.df.columns) :
            LET values == Column(args.df.data, j)
            IN  HasDefinedProbe(values, locals.probe_medians) =>
                    /\ ~IsNaN(ret[2][j])
                    /\ ret[2][j] = SpecObjective(locals.optimized_offsets[j], values,
                                                 locals.probe_medians)
                    /\ ~IsNaN(locals.unoptimized_distances[j])

\* The matrix has no missing value.
NoMissing(df) ==
    \A i \in 1..Len(df.index) : \A j \in 1..Len(df.columns) : ~IsNaN(df.data[i][j])

\* What the first value of the column j exceeds its probe's median by.
Excess(df, j) == df.data[1][j][1] - PandasMedian(df.data[1])[1]

\* The matrix has no missing value, and its column j is the probe medians
\* plus the constant Excess(df, j).
MediansPlusConstant(df, j) ==
    /\ NoMissing(df)
    /\ \A i \in 1..Len(df.index) :
           df.data[i][j][1] - PandasMedian(df.data[i])[1] = Excess(df, j)

NotConverged == {j \in 1..Len(args.df.columns) : ~locals.success_bools[j]}

PipelineStages ==
    <<"filter_samples", "filter_probes", "optimize_sample_balance", "remove_sample_outliers">>

IsStage(function) == function \in SeqRange(PipelineStages)

\* C7: a run of the pipeline goes through its stages in order, sample
\* filtering, probe filtering, balancing, outlier removal, each once, and a
\* run that raises no error reaches Done, having run them.
C7_PipelineRunsItsStagesInOrder ==
    Returned("main") => SelectSeq(trace, IsStage) = PipelineStages

IsPrefix(s, t) == Len(s) <= Len(t) /\ \A i \in 1..Len(s) : s[i] = t[i]

\* C8: after any sequence of update_prov_code calls on a provenance code whose
\* first entry is a valid assay type, every earlier code is a prefix of the
\* current one, the new entry is its last element, its first entry is still
\* the valid assay type, and every array that was passed in is as it was
\* passed; update_prov_code("L2X", ["PR1"]) returns ["PR1", "L2X"].
C8_ProvenanceCodeIsAppendOnly ==
    Returned("update_prov_code") =>
        /\ \A k \in 1..Len(history) :
               /\ heap[history[k].id] = history[k].data
               /\ IsPrefix(history[k].data, heap[prov])
               /\ Len(history[k].data) = k
        /\ ret = prov
        /\ ret # args.existing_prov_code
        /\ Len(heap[prov]) = Len(history) + 1
        /\ heap[prov][Len(heap[prov])] = args.new_entry
        /\ heap[prov][1] \in {"PR1", "GR1", "DR1"}
        /\ (heap[args.existing_prov_code] = <<"PR1">> /\ args.new_entry = "L2X") =>
               heap[ret] = <<"PR1", "L2X">>

\* The third entry has been appended to a provenance code.
C8_Witness == Returned("update_prov_code") /\ Len(history) = 3

\* C9: determine_assay_type returns the assay type exactly when its argument
\* is one of PR1, GR1 and DR1, compared case-sensitively; for every other
\* string it raises the error and returns no value.
C9_AssayTypeIsValidated ==
    (entry = "determine_assay_type" /\ pc # "call") =>
        /\ pc = "return" <=> args.prov_code \in {"PR1", "GR1", "DR1"}
        /\ pc = "return" => heap[ret] = <<args.prov_code>>
        /\ pc # "return" =>
               /\ pc = "raise"
               /\ ret.exception = "Exception"
               /\ heap = <<>>

\* DR1 was accepted.
C9_Witness == Returned("determine_assay_type") /\ args.prov_code = "DR1"

\* The distances are one or more, and all equal.
AllDistancesEqual ==
    /\ Len(args.distances) >= 1
    /\ \A j \in 1..Len(args.distances) : args.distances[j] = args.distances[1]

ComputedMean == FDiv(FSum(args.distances), Fl(Len(args.distances) * Scale))

=============================================================================
